---- MODULE Spec2Model ----
(***************************************************************************)
(* Koi: custom validation rules on top of Joi.  This module models the     *)
(* "numberAsString" type in its two variants:                              *)
(*   - src/unnamed/part_000 (Joi extension factory, `validate`)            *)
(*   - src/lib.ts           (legacy Joi extension, `pre`)                  *)
(* A schema node is its flag record plus its chain of range rules.  A      *)
(* validate call runs the format phase and then the chained rules.         *)
(*                                                                         *)
(* Representation                                                          *)
(*   string      sequence of one-character strings, <<"-", "0">> is '-0'   *)
(*   JS value    [type |-> "string" | "number" | ..., str |-> string]      *)
(*   optional    <<>> is undefined, <<x>> is the defined value x           *)
(*   number      [nan |-> BOOLEAN, n |-> Int], n is the value * 10^MaxLen  *)
(***************************************************************************)
EXTENDS Integers, Sequences, FiniteSets, TLC

VARIABLES flags, rules, input, prefs, result, resultLib, root

vars == <<flags, rules, input, prefs, result, resultLib, root>>

(* ------------------------------ bounds --------------------------------- *)

\* longest input string of the format-phase specification
MaxLen == 4

\* largest digits argument of minDecimals / maxDecimals / decimal
MaxDigits == 2

(* --------------------------- strings and values ------------------------ *)

\* characters of the input strings: sign, two digits, both separator glyphs,
\* a letter and a whitespace character
Chars == {"-", "0", "1", ".", ",", "a", " "}

Digits == {"0", "1"}

Separators == {".", ","}

WhiteSpace == {" "}

RECURSIVE StringsOfLen(_, _)
StringsOfLen(cs, n) ==
    IF n = 0 THEN {<<>>}
    ELSE {<<c>> \o s : c \in cs, s \in StringsOfLen(cs, n - 1)}

StringsUpTo(cs, n) == UNION {StringsOfLen(cs, k) : k \in 0..n}

Str(s) == [type |-> "string", str |-> s]

NonStrings == {[type |-> t, str |-> <<>>] :
                 t \in {"number", "array", "object", "boolean", "null"}}

\* mutant: a number passes the type test
IsStringOrNumber(v) == v.type \in {"string", "number"}

IsString(v) == v.type = "string"

Undefined == <<>>

\* value[i] of JavaScript, i counted from 0; out of range reads undefined
CharAt(s, i) == IF i >= 0 /\ i < Len(s) THEN s[i + 1] ELSE "undefined"

RECURSIVE TrimLeft(_)
TrimLeft(s) ==
    IF s # <<>> /\ Head(s) \in WhiteSpace THEN TrimLeft(Tail(s)) ELSE s

RECURSIVE TrimRight(_)
TrimRight(s) ==
    IF s # <<>> /\ s[Len(s)] \in WhiteSpace
    THEN TrimRight(SubSeq(s, 1, Len(s) - 1))
    ELSE s

\* String.prototype.trim
trim(s) == TrimRight(TrimLeft(s))

(* ------------------------------ numbers -------------------------------- *)

RECURSIVE Pow10(_)
Pow10(k) == IF k = 0 THEN 1 ELSE 10 * Pow10(k - 1)

DigitVal(c) == IF c = "1" THEN 1 ELSE 0

RECURSIVE DigitsVal(_)
DigitsVal(s) ==
    IF s = <<>> THEN 0 ELSE 10 * DigitsVal(SubSeq(s, 1, Len(s) - 1)) + DigitVal(s[Len(s)])

AllDigits(s) == \A k \in 1..Len(s) : s[k] \in Digits

NaN == [nan |-> TRUE, n |-> 0]

Num(n) == [nan |-> FALSE, n |-> n]

\* index (from 1) of the first occurrence of c in s, 0 when there is none
RECURSIVE IndexFrom(_, _, _)
IndexFrom(s, c, k) ==
    IF k > Len(s) THEN 0 ELSE IF s[k] = c THEN k ELSE IndexFrom(s, c, k + 1)

IndexOf(s, c) == IndexFrom(s, c, 1)

\* Number(string): surrounding whitespace is ignored, the empty string is 0,
\* then an optional '-' and a decimal literal with '.' as the decimal point
\* ("1.", ".1" and "1.1" are literals, "." is not); anything else is NaN.
\* The value is kept exactly, scaled by 10^MaxLen.
Number(str) ==
    LET t    == trim(str)
        neg  == t # <<>> /\ Head(t) = "-"
        u    == IF neg THEN Tail(t) ELSE t
        p    == IndexOf(u, ".")
        ip   == IF p = 0 THEN u ELSE SubSeq(u, 1, p - 1)
        fp   == IF p = 0 THEN <<>> ELSE SubSeq(u, p + 1, Len(u))
        mag  == DigitsVal(ip) * Pow10(MaxLen) + DigitsVal(fp) * Pow10(MaxLen - Len(fp))
    IN  IF t = <<>> THEN Num(0)
        ELSE IF AllDigits(ip) /\ AllDigits(fp) /\ Len(ip) + Len(fp) > 0
             THEN Num(IF neg THEN 0 - mag ELSE mag)
             ELSE NaN

\* String.prototype.replace(',', '.'): the first occurrence only
replaceComma(s) ==
    LET p == IndexOf(s, ",")
    IN  IF p = 0 THEN s ELSE [s EXCEPT ![p] = "."]

\* a === b on numbers: NaN equals nothing, -0 equals 0
NumEq(a, b) == ~a.nan /\ ~b.nan /\ a.n = b.n

(* ----------------------------- schema flags ---------------------------- *)

\* $_getFlag(name) / this._flags[name]
getFlag(f, name) == f[name]

\* mutant: a flag that is already set keeps its value
setFlagKeepFirst(f, name, v) == IF f[name] = <<>> THEN [f EXCEPT ![name] = <<v>>] ELSE f

\* $_setFlag(name, value) / this._flags[name] = value
setFlag(f, name, v) == [f EXCEPT ![name] = <<v>>]

\* flags of the node numberAsString() returns: nothing is set
NoFlags ==
    [_decimalSeparator |-> Undefined, _minDecimals |-> Undefined, _maxDecimals |-> Undefined]

\* mutant: an unset maxDecimals counts as 0
GreaterThanFlagDefault0(d, flag) == IF flag = Undefined THEN d > 0 ELSE d > flag[1]

\* mutant: maxDecimals is compared with >=
GreaterThanFlagOrEqual(d, flag) == flag # Undefined /\ d >= flag[1]

\* decimals > flag of JavaScript: a comparison with undefined is false
GreaterThanFlag(d, flag) == flag # Undefined /\ d > flag[1]

\* mutant: minDecimals is compared with <=
LessThanFlagOrEqual(d, flag) == flag # Undefined /\ d <= flag[1]

\* decimals < flag of JavaScript
LessThanFlag(d, flag) == flag # Undefined /\ d < flag[1]

\* mutant: the configured comma is not replaced before the string is parsed
numberFromStringNoReplace(str, f) == Number(str)

\* part_000 lines 490-496, lib.ts lines 380-386
numberFromString(str, f) ==
    IF getFlag(f, "_decimalSeparator") = <<",">>
    THEN Number(replaceComma(str))
    ELSE Number(str)

(* ------------------------------ scanner --------------------------------- *)

\* part_000 lines 320-331, lib.ts lines 244-255: the first loop.  It walks the
\* integer digits from index i and stops behind the first separator.
RECURSIVE scanInteger(_, _)
scanInteger(value, i) ==
    IF i < Len(value)
    THEN IF CharAt(value, i) \in Separators
         THEN [err |-> FALSE, i |-> i + 1, sep |-> <<CharAt(value, i)>>]
         ELSE IF CharAt(value, i) \in Digits
              THEN scanInteger(value, i + 1)
              ELSE [err |-> TRUE, i |-> i, sep |-> Undefined]
    ELSE [err |-> FALSE, i |-> i, sep |-> Undefined]

\* mutant: the second loop ends behind its first digit
scanDecimalsOneStep(value, i) ==
    IF i < Len(value)
    THEN IF CharAt(value, i) \in Digits
         THEN [err |-> FALSE, i |-> i + 1]
         ELSE [err |-> TRUE, i |-> i]
    ELSE [err |-> FALSE, i |-> i]

\* mutant: the second loop walks over separators as well
RECURSIVE scanDecimalsAnySeparator(_, _)
scanDecimalsAnySeparator(value, i) ==
    IF i < Len(value)
    THEN IF CharAt(value, i) \in Digits \cup Separators
         THEN scanDecimalsAnySeparator(value, i + 1)
         ELSE [err |-> TRUE, i |-> i]
    ELSE [err |-> FALSE, i |-> i]

\* part_000 lines 333-340, lib.ts lines 257-264: the second loop, digits only
RECURSIVE scanDecimals(_, _)
scanDecimals(value, i) ==
    IF i < Len(value)
    THEN IF CharAt(value, i) \in Digits
         THEN scanDecimals(value, i + 1)
         ELSE [err |-> TRUE, i |-> i]
    ELSE [err |-> FALSE, i |-> i]

\* mutant: a zero in front of the separator counts as a leading zero
leadingZeroAnyNext(value, i) ==
    /\ CharAt(value, i) = "0"
    /\ i + 1 < Len(value)

\* mutant: a leading zero is looked for in unsigned strings only
leadingZeroUnsigned(value, i) ==
    /\ i = 0
    /\ CharAt(value, i) = "0"
    /\ i + 1 < Len(value)
    /\ CharAt(value, i + 1) \notin Separators

\* wrongLeadingZero of the source, i is the index behind the sign
leadingZero(value, i) ==
    /\ CharAt(value, i) = "0"
    /\ i + 1 < Len(value)
    /\ CharAt(value, i + 1) \notin Separators

\* The scanning part of validate / pre, on the (possibly trimmed) string:
\* sign, end-of-string test, wrongLeadingZero, the two loops.
\* err is TRUE where the source returns notANumber out of this part.
scan(value) ==
    LET negative == CharAt(value, 0) = "-"
        i0       == IF negative THEN 1 ELSE 0
    IN  IF i0 = Len(value)
        THEN [err |-> TRUE, negative |-> negative, wrongLeadingZero |-> FALSE,
              sep |-> Undefined, decimals |-> 0]
        ELSE LET first == scanInteger(value, i0)
                 second == scanDecimals(value, first.i)
             IN  [err              |-> first.err \/ second.err,
                  negative         |-> negative,
                  wrongLeadingZero |-> leadingZero(value, i0),
                  sep              |-> first.sep,
                  decimals         |-> second.i - first.i]

(* --------------------------- format phase ------------------------------- *)

\* mutant: no test for an unset separator flag
separatorErrorNoUnset(sc, f) ==
    LET flag == getFlag(f, "_decimalSeparator")
    IN  IF sc.sep = Undefined THEN <<>>
        ELSE IF sc.decimals = 0 THEN <<"numberAsString.notANumber">>
        ELSE IF flag = <<",">> /\ sc.sep # flag THEN <<"numberAsString.decimalComma">>
        ELSE IF flag = <<".">> /\ sc.sep # flag THEN <<"numberAsString.decimalPoint">>
        ELSE <<>>

\* mutant: the two separator reasons are exchanged
separatorErrorSwapped(sc, f) ==
    LET flag == getFlag(f, "_decimalSeparator")
    IN  IF sc.sep = Undefined THEN <<>>
        ELSE IF sc.decimals = 0 THEN <<"numberAsString.notANumber">>
        ELSE IF flag = Undefined THEN <<"numberAsString.noDecimals">>
        ELSE IF flag = <<",">> /\ sc.sep # flag THEN <<"numberAsString.decimalPoint">>
        ELSE IF flag = <<".">> /\ sc.sep # flag THEN <<"numberAsString.decimalComma">>
        ELSE <<>>

\* mutant: the flag is tested before the number of decimals
separatorErrorFlagFirst(sc, f) ==
    LET flag == getFlag(f, "_decimalSeparator")
    IN  IF sc.sep = Undefined THEN <<>>
        ELSE IF flag = Undefined THEN <<"numberAsString.noDecimals">>
        ELSE IF flag = <<",">> /\ sc.sep # flag THEN <<"numberAsString.decimalComma">>
        ELSE IF flag = <<".">> /\ sc.sep # flag THEN <<"numberAsString.decimalPoint">>
        ELSE IF sc.decimals = 0 THEN <<"numberAsString.notANumber">>
        ELSE <<>>

\* part_000 lines 343-358: the checks on a separator that was found
separatorError(sc, f) ==
    LET flag == getFlag(f, "_decimalSeparator")
    IN  IF sc.sep = Undefined THEN <<>>
        ELSE IF sc.decimals = 0 THEN <<"numberAsString.notANumber">>
        ELSE IF flag = Undefined THEN <<"numberAsString.noDecimals">>
        ELSE IF flag = <<",">> /\ sc.sep # flag THEN <<"numberAsString.decimalComma">>
        ELSE IF flag = <<".">> /\ sc.sep # flag THEN <<"numberAsString.decimalPoint">>
        ELSE <<>>

\* mutant: negative zero is tested before the leading zero
valueErrorZeroFirst(sc, value, f) ==
    IF sc.negative /\ NumEq(numberFromString(value, f), Num(0))
         THEN <<"numberAsString.negativeZero">>
    ELSE IF sc.wrongLeadingZero THEN <<"numberAsString.leadingZero">>
    ELSE IF GreaterThanFlag(sc.decimals, getFlag(f, "_maxDecimals"))
         THEN <<"numberAsString.maxDecimals">>
    ELSE IF LessThanFlag(sc.decimals, getFlag(f, "_minDecimals"))
         THEN <<"numberAsString.minDecimals">>
    ELSE <<>>

\* mutant: the minDecimals check is left out
valueErrorNoMin(sc, value, f) ==
    IF sc.wrongLeadingZero THEN <<"numberAsString.leadingZero">>
    ELSE IF sc.negative /\ NumEq(numberFromString(value, f), Num(0))
         THEN <<"numberAsString.negativeZero">>
    ELSE IF GreaterThanFlag(sc.decimals, getFlag(f, "_maxDecimals"))
         THEN <<"numberAsString.maxDecimals">>
    ELSE <<>>

\* mutant: the decimal counts are tested in front of the leading zero and the
\* negative zero
valueErrorCountsFirst(sc, value, f) ==
    IF GreaterThanFlag(sc.decimals, getFlag(f, "_maxDecimals"))
    THEN <<"numberAsString.maxDecimals">>
    ELSE IF LessThanFlag(sc.decimals, getFlag(f, "_minDecimals"))
         THEN <<"numberAsString.minDecimals">>
    ELSE IF sc.wrongLeadingZero THEN <<"numberAsString.leadingZero">>
    ELSE IF sc.negative /\ NumEq(numberFromString(value, f), Num(0))
         THEN <<"numberAsString.negativeZero">>
    ELSE <<>>

\* part_000 lines 359-370: the checks behind the separator checks
valueError(sc, value, f) ==
    IF sc.wrongLeadingZero THEN <<"numberAsString.leadingZero">>
    ELSE IF sc.negative /\ NumEq(numberFromString(value, f), Num(0))
         THEN <<"numberAsString.negativeZero">>
    ELSE IF GreaterThanFlag(sc.decimals, getFlag(f, "_maxDecimals"))
         THEN <<"numberAsString.maxDecimals">>
    ELSE IF LessThanFlag(sc.decimals, getFlag(f, "_minDecimals"))
         THEN <<"numberAsString.minDecimals">>
    ELSE <<>>

\* mutant: the string is trimmed whatever convert is
convertedAlways(str, p) == trim(str)

\* part_000 lines 303-305, lib.ts lines 227-229: trimming under convert
converted(str, p) == IF p.convert THEN trim(str) ELSE str

\* mutant: the value handed back is written with a decimal point
validateNormalising(v, p, f) ==
    IF ~IsString(v)
    THEN [value |-> v, errors |-> <<"numberAsString.notAString">>]
    ELSE LET value == converted(v.str, p)
             sc    == scan(value)
         IN  [value  |-> Str(replaceComma(value)),
              errors |-> IF sc.err THEN <<"numberAsString.notANumber">>
                         ELSE IF separatorError(sc, f) # <<>> THEN separatorError(sc, f)
                         ELSE valueError(sc, value, f)]

\* part_000 lines 298-373: numberAsStringExtension.validate, { value, errors }
validate(v, p, f) ==
    IF ~IsString(v)
    THEN [value |-> v, errors |-> <<"numberAsString.notAString">>]
    ELSE LET value == converted(v.str, p)
             sc    == scan(value)
         IN  [value  |-> Str(value),
              errors |-> IF sc.err THEN <<"numberAsString.notANumber">>
                         ELSE IF separatorError(sc, f) # <<>> THEN separatorError(sc, f)
                         ELSE valueError(sc, value, f)]

\* mutant: a separator is accepted while no separator flag is set
separatorErrorLibSetOnly(sc, f) ==
    IF sc.sep # Undefined /\ sc.decimals = 0 THEN <<"numberAsString.notANumber">>
    ELSE IF /\ sc.sep # Undefined
            /\ getFlag(f, "_decimalSeparator") # Undefined
            /\ sc.sep # getFlag(f, "_decimalSeparator")
         THEN <<"numberAsString.decimalSeparator">>
    ELSE <<>>

\* lib.ts lines 267-272: the legacy checks on a separator that was found
separatorErrorLib(sc, f) ==
    IF sc.sep # Undefined /\ sc.decimals = 0 THEN <<"numberAsString.notANumber">>
    ELSE IF sc.sep # Undefined /\ sc.sep # getFlag(f, "_decimalSeparator")
         THEN <<"numberAsString.decimalSeparator">>
    ELSE <<>>

\* lib.ts lines 222-287: numberAsString.pre.  It returns the error or the
\* value; an error leaves the value the caller passed in.
pre(v, p, f) ==
    IF ~IsString(v)
    THEN [value |-> v, errors |-> <<"numberAsString.notAString">>]
    ELSE LET value == converted(v.str, p)
             sc    == scan(value)
             errs  == IF sc.err THEN <<"numberAsString.notANumber">>
                      ELSE IF separatorErrorLib(sc, f) # <<>> THEN separatorErrorLib(sc, f)
                      ELSE valueError(sc, value, f)
         IN  [value |-> IF errs = <<>> THEN Str(value) ELSE v, errors |-> errs]

(* ------------------------------ range rules ----------------------------- *)

\* a limit with one decimal, ip.tenths, in the scale of the numbers
Limit(ip, tenths) == ip * Pow10(MaxLen) + tenths * Pow10(MaxLen - 1)

\* limits the range rules are built with: 0.1 and 1
Limits == {Limit(0, 1), Limit(1, 0)}

RuleNames == {"min", "max", "greater", "less"}

\* a >= b, a <= b, a > b, a < b of JavaScript with a possibly NaN: false on NaN
NumGe(a, limit) == ~a.nan /\ a.n >= limit

NumLe(a, limit) == ~a.nan /\ a.n <= limit

NumGt(a, limit) == ~a.nan /\ a.n > limit

NumLt(a, limit) == ~a.nan /\ a.n < limit

\* mutant: min returns the string it coerced
minValidateCoerced(value, limit, f) ==
    IF NumGe(numberFromString(value.str, f), limit)
    THEN [value |-> Str(replaceComma(value.str)), errors |-> <<>>]
    ELSE [value |-> value, errors |-> <<"numberAsString.min">>]

\* part_000 lines 418-424, lib.ts lines 322-328: min.validate
minValidate(value, limit, f) ==
    IF NumGe(numberFromString(value.str, f), limit)
    THEN [value |-> value, errors |-> <<>>]
    ELSE [value |-> value, errors |-> <<"numberAsString.min">>]

\* part_000 lines 433-439, lib.ts lines 333-339: max.validate
maxValidate(value, limit, f) ==
    IF NumLe(numberFromString(value.str, f), limit)
    THEN [value |-> value, errors |-> <<>>]
    ELSE [value |-> value, errors |-> <<"numberAsString.max">>]

\* mutant: greater accepts the limit itself
greaterValidateInclusive(value, limit, f) ==
    IF NumGe(numberFromString(value.str, f), limit)
    THEN [value |-> value, errors |-> <<>>]
    ELSE [value |-> value, errors |-> <<"numberAsString.greater">>]

\* part_000 lines 448-454, lib.ts lines 344-350: greater.validate
greaterValidate(value, limit, f) ==
    IF NumGt(numberFromString(value.str, f), limit)
    THEN [value |-> value, errors |-> <<>>]
    ELSE [value |-> value, errors |-> <<"numberAsString.greater">>]

\* part_000 lines 463-469, lib.ts lines 355-361: less.validate
lessValidate(value, limit, f) ==
    IF NumLt(numberFromString(value.str, f), limit)
    THEN [value |-> value, errors |-> <<>>]
    ELSE [value |-> value, errors |-> <<"numberAsString.less">>]

ruleValidate(r, value, f) ==
    CASE r.name = "min"     -> minValidate(value, r.limit, f)
      [] r.name = "max"     -> maxValidate(value, r.limit, f)
      [] r.name = "greater" -> greaterValidate(value, r.limit, f)
      [] r.name = "less"    -> lessValidate(value, r.limit, f)

\* mutant: every failing rule adds its error
RECURSIVE runRulesCollect(_, _, _)
runRulesCollect(rs, value, f) ==
    IF rs = <<>> THEN [value |-> value, errors |-> <<>>]
    ELSE LET r    == ruleValidate(Head(rs), value, f)
             rest == runRulesCollect(Tail(rs), r.value, f)
         IN  [value |-> rest.value, errors |-> r.errors \o rest.errors]

\* mutant: only the rule chained last is run
RECURSIVE runRulesLastOnly(_, _, _)
runRulesLastOnly(rs, value, f) ==
    IF rs = <<>> THEN [value |-> value, errors |-> <<>>]
    ELSE IF Tail(rs) = <<>> THEN ruleValidate(Head(rs), value, f)
    ELSE runRulesLastOnly(Tail(rs), value, f)

\* The chained rules run in the order they were added, each on the value the
\* one before returned; the first error ends the call.
RECURSIVE runRules(_, _, _)
runRules(rs, value, f) ==
    IF rs = <<>> THEN [value |-> value, errors |-> <<>>]
    ELSE LET r == ruleValidate(Head(rs), value, f)
         IN  IF r.errors # <<>> THEN r ELSE runRules(Tail(rs), r.value, f)

\* mutant: the rules run on the raw input, the format phase behind them
validateCallRulesFirst(v, p, f, rs) ==
    LET r == runRules(rs, v, f)
    IN  IF r.errors # <<>> THEN r ELSE validate(v, p, f)

\* schema.validate(value, options) on a part_000 node: the format phase, and
\* the rules once it accepted
validateCall(v, p, f, rs) ==
    LET r == validate(v, p, f)
    IN  IF r.errors # <<>> THEN r ELSE runRules(rs, r.value, f)

\* schema.validate(value, options) on a lib.ts node
validateCallLib(v, p, f, rs) ==
    LET r == pre(v, p, f)
    IN  IF r.errors # <<>> THEN r ELSE runRules(rs, r.value, f)

(* ------------------------------- the schema ----------------------------- *)

SeparatorArgs == {".", ","}

DigitsArgs == 0..MaxDigits

\* values of the format-phase specification: every string up to MaxLen and
\* one value of each other type
Inputs == {Str(s) : s \in StringsUpTo(Chars, MaxLen)} \cup NonStrings

NoResult == [value |-> Str(<<>>), errors |-> <<"none">>]

\* Koi.numberAsString(): a node without flags and rules; nothing validated yet
Init ==
    /\ flags = NoFlags
    /\ rules = <<>>
    /\ input = Str(<<>>)
    /\ prefs = [convert |-> TRUE]
    /\ result = NoResult
    /\ resultLib = NoResult
    /\ root = NoFlags

Validated == result # NoResult

\* mutant: the call writes the flag into the node it is called on, so a call
\* on the node numberAsString() returned changes that node
decimalSeparatorInPlace(sep) ==
    /\ ~Validated
    /\ flags' = setFlag(flags, "_decimalSeparator", sep)
    /\ root' = IF flags = root THEN flags' ELSE root
    /\ UNCHANGED <<rules, input, prefs, result, resultLib>>

\* The builder calls.  A node is built first and validated afterwards, so a
\* builder call acts on a node no validate call was made on.
decimalSeparator(sep) ==
    /\ ~Validated
    /\ flags' = setFlag(flags, "_decimalSeparator", sep)
    /\ UNCHANGED <<rules, input, prefs, result, resultLib, root>>

minDecimals(digits) ==
    /\ ~Validated
    /\ flags' = setFlag(flags, "_minDecimals", digits)
    /\ UNCHANGED <<rules, input, prefs, result, resultLib, root>>

maxDecimals(digits) ==
    /\ ~Validated
    /\ flags' = setFlag(flags, "_maxDecimals", digits)
    /\ UNCHANGED <<rules, input, prefs, result, resultLib, root>>

\* setup of the decimal rule of lib.ts: the three flags are assigned directly
decimalFlagsLib(f, sep, digits) ==
    [f EXCEPT !._decimalSeparator = <<sep>>,
              !._minDecimals = <<digits>>,
              !._maxDecimals = <<digits>>]

\* mutant: decimal leaves maxDecimals alone
decimalNoMax(sep, digits) ==
    /\ ~Validated
    /\ flags' = setFlag(setFlag(flags, "_decimalSeparator", sep), "_minDecimals", digits)
    /\ UNCHANGED <<rules, input, prefs, result, resultLib, root>>

\* part_000 lines 376-381 chain the three calls, lib.ts lines 292-296 assign
\* the three flags
decimal(sep, digits) ==
    /\ ~Validated
    /\ flags' = setFlag(setFlag(setFlag(flags, "_decimalSeparator", sep),
                                "_minDecimals", digits),
                        "_maxDecimals", digits)
    /\ UNCHANGED <<rules, input, prefs, result, resultLib, root>>

\* schema.validate(v, { convert }) on the node, in both variants.  The outcome
\* is a function of the node and the arguments alone, so the call is recorded
\* once per node: a second call on the same node adds no state.
Validate(v, convert) ==
    /\ ~Validated
    /\ input' = v
    /\ prefs' = [convert |-> convert]
    /\ result' = validateCall(v, prefs', flags, rules)
    /\ resultLib' = validateCallLib(v, prefs', flags, rules)
    /\ UNCHANGED <<flags, rules, root>>

\* The format phase: a node is configured and validated
Next ==
    \/ ~Validated /\ \E sep \in SeparatorArgs : decimalSeparator(sep)
    \/ ~Validated /\ \E digits \in DigitsArgs : minDecimals(digits)
    \/ ~Validated /\ \E digits \in DigitsArgs : maxDecimals(digits)
    \/ ~Validated /\ \E sep \in SeparatorArgs, digits \in DigitsArgs : decimal(sep, digits)
    \/ ~Validated /\ \E v \in Inputs, convert \in BOOLEAN : Validate(v, convert)

Spec == Init /\ [][Next]_vars

(* ------------------------- the range-rule specification ----------------- *)

\* longest input string of the range-rule specification
MaxRangeLen == 3

\* most rules chained on one node
MaxRules == 2

RangeInputs == {Str(s) : s \in StringsUpTo(Chars, MaxRangeLen)} \cup NonStrings

HasRule(name) == \E k \in 1..Len(rules) : rules[k].name = name

\* $_addRule({ name, args: { limit } }) / _test(name, { limit }, validate).
\* Each of the four rules is chained at most once on a node.
addRule(name, limit) ==
    /\ ~Validated
    /\ Len(rules) < MaxRules
    /\ ~HasRule(name)
    /\ rules' = Append(rules, [name |-> name, limit |-> limit])
    /\ UNCHANGED <<flags, input, prefs, result, resultLib, root>>

min(limit) == addRule("min", limit)

max(limit) == addRule("max", limit)

greater(limit) == addRule("greater", limit)

less(limit) == addRule("less", limit)

\* A node with a separator and range rules is built and validated
NextRange ==
    \/ ~Validated /\ \E sep \in SeparatorArgs : decimalSeparator(sep)
    \/ ~Validated /\ \E limit \in Limits : min(limit)
    \/ ~Validated /\ \E limit \in Limits : max(limit)
    \/ ~Validated /\ \E limit \in Limits : greater(limit)
    \/ ~Validated /\ \E limit \in Limits : less(limit)
    \/ ~Validated /\ \E v \in RangeInputs, convert \in BOOLEAN : Validate(v, convert)

SpecRange == Init /\ [][NextRange]_vars

(* ------------------- the format of a number, stated directly ------------- *)

\* the number of whitespace characters s begins with
LeadingWhiteSpace(s) ==
    CHOOSE a \in 0..Len(s) :
        /\ \A k \in 1..a : s[k] \in WhiteSpace
        /\ a = Len(s) \/ s[a + 1] \notin WhiteSpace

\* the number of whitespace characters s ends with
TrailingWhiteSpace(s) ==
    CHOOSE b \in 0..Len(s) :
        /\ \A k \in (Len(s) - b + 1)..Len(s) : s[k] \in WhiteSpace
        /\ b = Len(s) \/ s[Len(s) - b] \notin WhiteSpace

\* s without its leading and trailing whitespace
Stripped(s) ==
    IF LeadingWhiteSpace(s) = Len(s) THEN <<>>
    ELSE SubSeq(s, LeadingWhiteSpace(s) + 1, Len(s) - TrailingWhiteSpace(s))

HasOuterWhiteSpace(s) == s # <<>> /\ (s[1] \in WhiteSpace \/ s[Len(s)] \in WhiteSpace)

Signed(s) == s # <<>> /\ s[1] = "-"

Body(s) == IF Signed(s) THEN Tail(s) ELSE s

SepPositions(b) == {k \in 1..Len(b) : b[k] \in Separators}

\* optional '-', digits, and at most one separator with a digit behind it
WellFormed(s) ==
    LET b == Body(s)
    IN  /\ b # <<>>
        /\ \A k \in 1..Len(b) : b[k] \in Digits \cup Separators
        /\ Cardinality(SepPositions(b)) <= 1
        /\ b[Len(b)] \notin Separators

HasSeparator(s) == SepPositions(Body(s)) # {}

SepPos(s) == CHOOSE k \in SepPositions(Body(s)) : TRUE

SeparatorChar(s) == Body(s)[SepPos(s)]

IntegerPart(s) ==
    IF HasSeparator(s) THEN SubSeq(Body(s), 1, SepPos(s) - 1) ELSE Body(s)

FractionalPart(s) ==
    IF HasSeparator(s) THEN SubSeq(Body(s), SepPos(s) + 1, Len(Body(s))) ELSE <<>>

HasLeadingZero(s) == Len(IntegerPart(s)) >= 2 /\ IntegerPart(s)[1] = "0"

IsZero(s) == \A k \in 1..Len(Body(s)) : Body(s)[k] \in Separators \cup {"0"}

\* the first condition of the format phase that holds, in the fixed order
Reason(s, f) ==
    IF ~WellFormed(s) THEN "NotANumber"
    ELSE IF HasSeparator(s) /\ f._decimalSeparator = Undefined THEN "NoDecimalsAllowed"
    ELSE IF HasSeparator(s) /\ f._decimalSeparator # <<SeparatorChar(s)>> THEN "WrongSeparator"
    ELSE IF HasLeadingZero(s) THEN "LeadingZero"
    ELSE IF Signed(s) /\ IsZero(s) THEN "NegativeZero"
    ELSE IF f._maxDecimals # Undefined /\ Len(FractionalPart(s)) > f._maxDecimals[1]
         THEN "MaxDecimalsExceeded"
    ELSE IF f._minDecimals # Undefined /\ Len(FractionalPart(s)) < f._minDecimals[1]
         THEN "MinDecimalsNotMet"
    ELSE "Accepted"

\* the error type part_000 reports for a reason
ErrorsOf(reason, f) ==
    CASE reason = "Accepted"            -> <<>>
      [] reason = "NotANumber"          -> <<"numberAsString.notANumber">>
      [] reason = "NoDecimalsAllowed"   -> <<"numberAsString.noDecimals">>
      [] reason = "WrongSeparator"      ->
            IF f._decimalSeparator = <<",">> THEN <<"numberAsString.decimalComma">>
                                             ELSE <<"numberAsString.decimalPoint">>
      [] reason = "LeadingZero"         -> <<"numberAsString.leadingZero">>
      [] reason = "NegativeZero"        -> <<"numberAsString.negativeZero">>
      [] reason = "MaxDecimalsExceeded" -> <<"numberAsString.maxDecimals">>
      [] reason = "MinDecimalsNotMet"   -> <<"numberAsString.minDecimals">>

\* the error type lib.ts reports for a reason: one type for both separator reasons
ErrorsOfLib(reason, f) ==
    IF reason \in {"NoDecimalsAllowed", "WrongSeparator"}
    THEN <<"numberAsString.decimalSeparator">>
    ELSE ErrorsOf(reason, f)

\* the string the scanner is given
Seen == IF prefs.convert THEN Stripped(input.str) ELSE input.str

StringValidated == Validated /\ input \notin NonStrings

Accepted == Validated /\ result.errors = <<>>

AllFlags ==
    [_decimalSeparator : {Undefined} \cup {<<x>> : x \in SeparatorArgs},
     _minDecimals : {Undefined} \cup {<<x>> : x \in DigitsArgs},
     _maxDecimals : {Undefined} \cup {<<x>> : x \in DigitsArgs}]

ErrorTypes ==
    {"numberAsString.notAString", "numberAsString.notANumber", "numberAsString.leadingZero",
     "numberAsString.negativeZero", "numberAsString.noDecimals", "numberAsString.decimalComma",
     "numberAsString.decimalPoint", "numberAsString.decimalSeparator",
     "numberAsString.minDecimals", "numberAsString.maxDecimals", "numberAsString.min",
     "numberAsString.max", "numberAsString.greater", "numberAsString.less"}

(* -------------------------------- claims --------------------------------- *)

\* C1: for every string input and configuration the format phase reports the
\* first condition that holds in the order NotANumber, separator reason
\* (NoDecimalsAllowed / WrongSeparator), LeadingZero, NegativeZero,
\* MaxDecimalsExceeded, MinDecimalsNotMet, and accepts iff none holds; both
\* variants (lib.ts reports the two separator reasons under one type).
C1_FirstReasonWins ==
    StringValidated =>
        /\ result.errors = ErrorsOf(Reason(Seen, flags), flags)
        /\ resultLib.errors = ErrorsOfLib(Reason(Seen, flags), flags)

\* '-0.0' under decimal('.', 2): zero, negative and one decimal short of two,
\* reported as negativeZero
C1_Witness ==
    /\ Validated
    /\ input = Str(<<"-", "0", ".", "0">>)
    /\ flags = [_decimalSeparator |-> <<".">>, _minDecimals |-> <<2>>, _maxDecimals |-> <<2>>]
    /\ result.errors = <<"numberAsString.negativeZero">>
    /\ resultLib.errors = <<"numberAsString.negativeZero">>

Fails(r) == ruleValidate(r, result.value, flags).errors # <<>>

C3_OutputIsInput ==
    /\ Accepted => result.value = Str(Seen)
    /\ Validated /\ resultLib.errors = <<>> => resultLib.value = Str(Seen)

\* a value with a decimal comma passed a rule and came out as it went in
C3_Witness ==
    /\ Accepted
    /\ rules # <<>>
    /\ HasSeparator(input.str) /\ SeparatorChar(input.str) = ","
    /\ result.value = input
    /\ resultLib.value = input

\* C4: whitespace is stripped before scanning iff convert is on: with convert
\* on an input whose stripped form is acceptable is accepted and the output
\* is the stripped string; with convert off an input with leading or trailing
\* whitespace is rejected as notANumber.
C4_TrimIffConvert ==
    StringValidated =>
        LET off == [convert |-> FALSE]
            t   == Str(Stripped(input.str))
        IN  /\ prefs.convert /\ validate(t, off, flags).errors = <<>>
                 => result = [value |-> t, errors |-> <<>>]
            /\ prefs.convert /\ pre(t, off, flags).errors = <<>>
                 => resultLib = [value |-> t, errors |-> <<>>]
            /\ ~prefs.convert /\ HasOuterWhiteSpace(input.str)
                 => /\ result.errors = <<"numberAsString.notANumber">>
                    /\ resultLib.errors = <<"numberAsString.notANumber">>

\* whitespace on both sides is stripped under convert and the rest accepted
C4_Witness ==
    /\ Accepted
    /\ prefs.convert
    /\ Len(input.str) >= 3
    /\ input.str[1] \in WhiteSpace /\ input.str[Len(input.str)] \in WhiteSpace
    /\ result.value # input
    /\ resultLib = result

\* C5: an input that is not a string is rejected with notAString, whatever the
\* separator, the decimal limits and the range rules of the node.
C5_NotAString ==
    Validated /\ input \in NonStrings =>
        /\ result.errors = <<"numberAsString.notAString">>
        /\ \A f \in AllFlags :
              /\ validateCall(input, prefs, f, rules).errors = <<"numberAsString.notAString">>
              /\ validateCallLib(input, prefs, f, rules).errors = <<"numberAsString.notAString">>

C5_Witness ==
    /\ Validated
    /\ input.type = "number"
    /\ rules # <<>>
    /\ flags._decimalSeparator # Undefined
    /\ result.errors = <<"numberAsString.notAString">>

\* C6 as claimed: a node on which maxDecimals was never set validates as a
\* node with maxDecimals = 0.
C6_DefaultMaxIsZero ==
    StringValidated /\ flags._maxDecimals = Undefined =>
        result = validateCall(input, prefs, setFlag(flags, "_maxDecimals", 0), rules)

\* C6 amended: a node on which maxDecimals was never set validates without an
\* upper limit on the decimals (as with a maxDecimals no input reaches), and a
\* node on which minDecimals was never set validates as with minDecimals = 0.
C6_NoDefaultMax ==
    StringValidated =>
        /\ flags._maxDecimals = Undefined =>
              /\ result.errors # <<"numberAsString.maxDecimals">>
              /\ result = validateCall(input, prefs, setFlag(flags, "_maxDecimals", MaxLen), rules)
        /\ flags._minDecimals = Undefined =>
              result = validateCall(input, prefs, setFlag(flags, "_minDecimals", 0), rules)

\* decimals are accepted on a node with a separator and no maxDecimals
C6_Witness ==
    /\ Accepted
    /\ flags._maxDecimals = Undefined
    /\ flags._minDecimals = Undefined
    /\ Len(FractionalPart(Seen)) >= 2

\* C7: with a separator configured and maxDecimals never called, every input
\* of optional '-', integer part without wrong leading zero, the separator
\* and d >= 1 fractional digits that is not negative zero is accepted for every
\* d, and with minDecimals(n) for every d >= n.
C7_AnyDecimalsAccepted ==
    LET s == input.str
    IN  /\ StringValidated
        /\ flags._maxDecimals = Undefined
        /\ WellFormed(s) /\ HasSeparator(s)
        /\ flags._decimalSeparator = <<SeparatorChar(s)>>
        /\ ~HasLeadingZero(s)
        /\ ~(Signed(s) /\ IsZero(s))
        /\ flags._minDecimals = Undefined \/ Len(FractionalPart(s)) >= flags._minDecimals[1]
        => result.errors = <<>> /\ result.value = input

\* minDecimals(1) and two fractional digits
C7_Witness ==
    /\ Accepted
    /\ flags._maxDecimals = Undefined
    /\ flags._minDecimals = <<1>>
    /\ Signed(input.str)
    /\ IntegerPart(input.str) = <<>>
    /\ Len(FractionalPart(input.str)) = 2

HasSeparatorChar(s) == \E k \in 1..Len(s) : s[k] \in Separators

\* C8 as claimed: without a configured separator every input string that
\* contains '.' or ',' is rejected as noDecimals.
C8_EverySeparatorIsNoDecimals ==
    StringValidated /\ flags._decimalSeparator = Undefined /\ HasSeparatorChar(input.str)
        => result.errors = <<"numberAsString.noDecimals">>

\* C8 amended: without a configured separator every input that scans (optional
\* '-', digits, one separator, at least one fractional digit) is rejected as
\* noDecimals, an input with a separator that does not scan is rejected as
\* notANumber, and digits without a leading zero are accepted by the node
\* numberAsString() returns.
C8_ScannedSeparatorIsNoDecimals ==
    StringValidated /\ flags._decimalSeparator = Undefined =>
        /\ WellFormed(Seen) /\ HasSeparator(Seen)
              => result.errors = <<"numberAsString.noDecimals">>
        /\ ~WellFormed(Seen) /\ HasSeparatorChar(Seen)
              => result.errors = <<"numberAsString.notANumber">>
        /\ flags = NoFlags /\ Seen # <<>> /\ AllDigits(Seen) /\ ~HasLeadingZero(Seen)
              => result.errors = <<>>

C8_Witness ==
    /\ StringValidated
    /\ flags._decimalSeparator = Undefined
    /\ WellFormed(Seen) /\ HasSeparator(Seen)
    /\ HasLeadingZero(Seen)
    /\ result.errors = <<"numberAsString.noDecimals">>

RejectedSeparator ==
    /\ StringValidated
    /\ WellFormed(Seen) /\ HasSeparator(Seen)
    /\ flags._decimalSeparator # <<SeparatorChar(Seen)>>

IsMinusZero(s) ==
    /\ WellFormed(s)
    /\ Signed(s)
    /\ IsZero(s)
    /\ Len(IntegerPart(s)) <= 1

\* C11 as claimed: '-0', '-0.0', '-.0', '-.00' are rejected as negativeZero
\* under every separator configuration.
C11_MinusZeroAlwaysNegativeZero ==
    StringValidated /\ IsMinusZero(Seen) =>
        /\ result.errors = <<"numberAsString.negativeZero">>
        /\ resultLib.errors = <<"numberAsString.negativeZero">>

\* C11 amended: '-0' is rejected as negativeZero under every separator
\* configuration, and a minus zero with a separator is rejected as
\* negativeZero, for any number of zeros behind the separator, when its
\* separator is the configured one; with no separator configured or the other
\* one configured it is rejected with the separator reason.
C11_MinusZeroBehindSeparatorCheck ==
    StringValidated /\ IsMinusZero(Seen) =>
        IF HasSeparator(Seen) /\ flags._decimalSeparator # <<SeparatorChar(Seen)>>
        THEN /\ result.errors \in {<<"numberAsString.noDecimals">>,
                                   <<"numberAsString.decimalComma">>,
                                   <<"numberAsString.decimalPoint">>}
             /\ resultLib.errors = <<"numberAsString.decimalSeparator">>
        ELSE /\ result.errors = <<"numberAsString.negativeZero">>
             /\ resultLib.errors = <<"numberAsString.negativeZero">>

\* '-,00' with the comma configured: coerced through the replaced comma
C11_Witness ==
    /\ Validated
    /\ input = Str(<<"-", ",", "0", "0">>)
    /\ flags._decimalSeparator = <<",">>
    /\ result.errors = <<"numberAsString.negativeZero">>
    /\ resultLib.errors = <<"numberAsString.negativeZero">>

\* C12: for every input that scans, wrongLeadingZero is true iff the integer
\* part has at least two characters and begins with '0'; the flag is the same
\* without the sign and without the separator and the fractional digits.
C12_LeadingZeroIsOfIntegerPart ==
    StringValidated /\ WellFormed(Seen) =>
        /\ ~scan(Seen).err
        /\ scan(Seen).wrongLeadingZero = HasLeadingZero(Seen)
        /\ scan(Seen).wrongLeadingZero = scan(Body(Seen)).wrongLeadingZero
        /\ IntegerPart(Seen) # <<>> =>
              scan(Seen).wrongLeadingZero = scan(IntegerPart(Seen)).wrongLeadingZero
        /\ IntegerPart(Seen) = <<>> => ~scan(Seen).wrongLeadingZero

\* '-0.1': a sign in front, a single zero before the separator, no leading zero
C12_Witness ==
    /\ Validated
    /\ input = Str(<<"-", "0", ".", "1">>)
    /\ flags._decimalSeparator = <<".">>
    /\ ~scan(Seen).wrongLeadingZero
    /\ result.errors # <<"numberAsString.leadingZero">>

\* The configuration after decimalSeparator(sep), minDecimals(digits) and
\* maxDecimals(digits) were called one after the other on a node with flags f
ChainedFlags(f, sep, digits) ==
    LET f1 == setFlag(f, "_decimalSeparator", sep)
        f2 == setFlag(f1, "_minDecimals", digits)
    IN  setFlag(f2, "_maxDecimals", digits)

\* C13: from any prior configuration, decimal(sep, n) yields the configuration
\* that decimalSeparator(sep), minDecimals(n), maxDecimals(n) in sequence
\* yield, in both variants, and a validate call on a node with that
\* configuration has the outcome of the call on the chained node.
C13_DecimalIsTheChain ==
    [][\A sep \in SeparatorArgs, digits \in DigitsArgs :
          /\ decimal(sep, digits) =>
                /\ flags' = ChainedFlags(flags, sep, digits)
                /\ flags' = decimalFlagsLib(flags, sep, digits)
                /\ \A g \in AllFlags : ChainedFlags(g, sep, digits) = decimalFlagsLib(g, sep, digits)
          /\ (~Validated /\ Validated' /\ flags = decimalFlagsLib(flags, sep, digits)) =>
                /\ result' = validateCall(input', prefs', ChainedFlags(NoFlags, sep, digits), rules)
                /\ resultLib' = validateCallLib(input', prefs', ChainedFlags(NoFlags, sep, digits), rules)
      ]_vars

\* decimal(',', 1) accepts '1,0' and nothing else configured min or max
C13_Witness ==
    /\ Validated
    /\ flags = decimalFlagsLib(NoFlags, ",", 1)
    /\ input = Str(<<"1", ",", "0">>)
    /\ Accepted

\* C14: a configuration call overwrites: it sets its field to its argument
\* whatever the field held, leaves the other fields alone, and the same call
\* made again leaves the configuration as it is; a validate call changes no
\* field.  So each field holds the argument of the last call that set it.
C14_LastCallWins ==
    [][/\ \A sep \in SeparatorArgs :
             decimalSeparator(sep) =>
                /\ flags' = [flags EXCEPT !._decimalSeparator = <<sep>>]
                /\ setFlag(flags', "_decimalSeparator", sep) = flags'
       /\ \A digits \in DigitsArgs :
             /\ minDecimals(digits) =>
                   /\ flags' = [flags EXCEPT !._minDecimals = <<digits>>]
                   /\ setFlag(flags', "_minDecimals", digits) = flags'
             /\ maxDecimals(digits) =>
                   /\ flags' = [flags EXCEPT !._maxDecimals = <<digits>>]
                   /\ setFlag(flags', "_maxDecimals", digits) = flags'
       /\ \A sep \in SeparatorArgs, digits \in DigitsArgs :
             decimal(sep, digits) =>
                /\ flags' = [_decimalSeparator |-> <<sep>>,
                             _minDecimals |-> <<digits>>,
                             _maxDecimals |-> <<digits>>]
                /\ ChainedFlags(flags', sep, digits) = flags'
       /\ Validated' => flags' = flags
      ]_vars

\* every field was set, min and max by calls of their own
C14_Witness ==
    /\ Validated
    /\ flags = [_decimalSeparator |-> <<".">>, _minDecimals |-> <<0>>, _maxDecimals |-> <<2>>]
    /\ input = Str(<<"1", ".", "0", "1">>)
    /\ Accepted

\* C15: minDecimals(m) and maxDecimals(n) with m > n can both be called on any
\* node that is being built, and a node configured so rejects every input.
C15_MinAboveMaxRejectsAll ==
    /\ ~Validated =>
          \A m \in DigitsArgs, n \in DigitsArgs :
              /\ ENABLED minDecimals(m)
              /\ ENABLED maxDecimals(n)
    /\ ( /\ Validated
         /\ flags._minDecimals # Undefined
         /\ flags._maxDecimals # Undefined
         /\ flags._minDecimals[1] > flags._maxDecimals[1] ) =>
          /\ result.errors # <<>>
          /\ resultLib.errors # <<>>

\* minDecimals(2), maxDecimals(1): '1' passes every other check and is rejected
C15_Witness ==
    /\ Validated
    /\ flags._minDecimals = <<2>>
    /\ flags._maxDecimals = <<1>>
    /\ input = Str(<<"1">>)
    /\ result.errors = <<"numberAsString.minDecimals">>
    /\ resultLib.errors = <<"numberAsString.minDecimals">>

\* s passes every check in front of the decimal-count checks
OtherwiseWellFormed(s, f) ==
    /\ WellFormed(s)
    /\ HasSeparator(s) => f._decimalSeparator = <<SeparatorChar(s)>>
    /\ ~HasLeadingZero(s)
    /\ ~(Signed(s) /\ IsZero(s))

\* C16: an otherwise well-formed input with d fractional digits is rejected
\* as maxDecimals iff maxDecimals(n) is set and d > n, and as minDecimals iff
\* minDecimals(m) is set, d < m and the max check passed; else it is accepted.
C16_DecimalCountChecks ==
    StringValidated /\ OtherwiseWellFormed(Seen, flags) =>
        LET d       == Len(FractionalPart(Seen))
            tooMany == flags._maxDecimals # Undefined /\ d > flags._maxDecimals[1]
            tooFew  == flags._minDecimals # Undefined /\ d < flags._minDecimals[1]
        IN  /\ result.errors = <<"numberAsString.maxDecimals">> <=> tooMany
            /\ result.errors = <<"numberAsString.minDecimals">> <=> (tooFew /\ ~tooMany)
            /\ result.errors = <<>> <=> (~tooFew /\ ~tooMany)
            /\ resultLib.errors = result.errors

\* d = n passes the max check and d = m the min check: '.11' under
\* minDecimals(2), maxDecimals(2)
C16_Witness ==
    /\ Validated
    /\ flags = [_decimalSeparator |-> <<".">>, _minDecimals |-> <<2>>, _maxDecimals |-> <<2>>]
    /\ input = Str(<<".", "1", "1">>)
    /\ result.errors = <<>>

\* the decimal number a well-formed string denotes, scaled by 10^MaxLen
DecimalValue(s) ==
    LET mag == DigitsVal(IntegerPart(s)) * Pow10(MaxLen)
                 + DigitsVal(FractionalPart(s)) * Pow10(MaxLen - Len(FractionalPart(s)))
    IN  IF Signed(s) THEN 0 - mag ELSE mag

\* the comparison a rule kind stands for
Compares(name, x, limit) ==
    CASE name = "min"     -> x >= limit
      [] name = "max"     -> x <= limit
      [] name = "greater" -> x > limit
      [] name = "less"    -> x < limit

RuleError(name) ==
    CASE name = "min"     -> <<"numberAsString.min">>
      [] name = "max"     -> <<"numberAsString.max">>
      [] name = "greater" -> <<"numberAsString.greater">>
      [] name = "less"    -> <<"numberAsString.less">>

RangeTypes ==
    {"numberAsString.min", "numberAsString.max", "numberAsString.greater", "numberAsString.less"}

\* the format phase let the input through to the chained rules
ReachedRules == result.errors = <<>> \/ result.errors[1] \in RangeTypes

ReachedRulesLib == resultLib.errors = <<>> \/ resultLib.errors[1] \in RangeTypes

\* positions of the chained rules whose comparison is false of the value
FailingRules == {k \in 1..Len(rules) : ~Compares(rules[k].name, DecimalValue(Seen), rules[k].limit)}

\* C17: on a format-accepted value with number x, min(L) accepts iff x >= L,
\* max(L) iff x <= L, greater(L) iff x > L, less(L) iff x < L, a failing rule
\* reports its own reason, and the call reports the first failing rule.
C17_RangeComparisons ==
    StringValidated /\ ReachedRules =>
        /\ WellFormed(Seen)
        /\ \A k \in 1..Len(rules) :
              LET out == ruleValidate(rules[k], Str(Seen), flags)
              IN  IF k \in FailingRules
                  THEN out.errors = RuleError(rules[k].name)
                  ELSE out.errors = <<>>
        /\ result.errors =
              IF FailingRules = {} THEN <<>>
              ELSE RuleError(rules[CHOOSE k \in FailingRules :
                                      \A j \in FailingRules : k <= j].name)
        /\ resultLib.errors = result.errors

\* at the boundary: ',10' under decimalSeparator(',') passes min(0.1) and
\* fails greater(0.1)
C17_Witness ==
    /\ Validated
    /\ flags._decimalSeparator = <<",">>
    /\ input = Str(<<",", "1", "0">>)
    /\ rules = <<[name |-> "min", limit |-> Limit(0, 1)],
                 [name |-> "greater", limit |-> Limit(0, 1)]>>
    /\ result.errors = <<"numberAsString.greater">>

\* the chains that hold the rules of rs in another order
Reorderings(rs) ==
    {[k \in 1..Len(rs) |-> rs[p[k]]] : p \in Permutations(1..Len(rs))}

C19_RangeBehindFormat ==
    Validated =>
        LET format    == validateCall(input, prefs, flags, <<>>)
            formatLib == validateCallLib(input, prefs, flags, <<>>)
        IN  /\ format.errors # <<>> => result = format
            /\ formatLib.errors # <<>> => resultLib = formatLib
            /\ (result.errors # <<>> /\ result.errors[1] \in RangeTypes) =>
                  format.errors = <<>>
            /\ (resultLib.errors # <<>> /\ resultLib.errors[1] \in RangeTypes) =>
                  formatLib.errors = <<>>

\* '00' is below min(1) and is reported as a leading zero
C19_Witness ==
    /\ Validated
    /\ input = Str(<<"0", "0">>)
    /\ rules = <<[name |-> "min", limit |-> Limit(1, 0)]>>
    /\ ruleValidate(rules[1], input, flags).errors = <<"numberAsString.min">>
    /\ result.errors = <<"numberAsString.leadingZero">>
    /\ resultLib.errors = <<"numberAsString.leadingZero">>

\* C20: every validate call ends accepted or rejected with one known type.
\* On a string the two loops end with their index inside the string: the
\* first ends at an index from the start index to the length, the second at
\* an index from there to the length, at the length when neither met a
\* character it rejects and at the rejected character otherwise; the empty
\* and the sign-only string are rejected before the loops.
C20_ValidationIsTotal ==
    Validated =>
        /\ result.errors = <<>> \/ \E t \in ErrorTypes : result.errors = <<t>>
        /\ resultLib.errors = <<>> \/ \E t \in ErrorTypes : resultLib.errors = <<t>>
        /\ input \in NonStrings => result.errors = <<"numberAsString.notAString">>
        /\ input \notin NonStrings =>
              LET value  == converted(input.str, prefs)
                  i0     == IF CharAt(value, 0) = "-" THEN 1 ELSE 0
                  first  == scanInteger(value, i0)
                  second == scanDecimals(value, first.i)
              IN  IF i0 = Len(value)
                  THEN /\ scan(value).err
                       /\ result.errors = <<"numberAsString.notANumber">>
                  ELSE /\ first.i \in i0..Len(value)
                       /\ second.i \in first.i..Len(value)
                       /\ first.err => first.i < Len(value)
                                         /\ CharAt(value, first.i) \notin Digits \cup Separators
                       /\ second.err => second.i < Len(value)
                                          /\ CharAt(value, second.i) \notin Digits
                       /\ ~second.err => second.i = Len(value)
                       /\ scan(value).decimals \in 0..Len(value)

\* the sign-only string: value[1] is read behind the end and the call is
\* rejected as notANumber
C20_Witness ==
    /\ Validated
    /\ input = Str(<<"-">>)
    /\ CharAt(input.str, 1) = "undefined"
    /\ result.errors = <<"numberAsString.notANumber">>
    /\ resultLib.errors = <<"numberAsString.notANumber">>

\* optional '-', digits, and at most one separator, the configured one
CoercibleShape(s, f) ==
    /\ WellFormed(s)
    /\ HasSeparator(s) => f._decimalSeparator = <<SeparatorChar(s)>>

\* C21, the part the bounded strings decide: wherever numberFromString is
\* called, in the negative-zero check of either variant and in every chained
\* rule, its argument is an optional '-', digits and at most one separator,
\* the configured one, and the coerced number is not NaN.
C21_CoercionNeverNaN ==
    StringValidated =>
        LET value == converted(input.str, prefs)
            sc    == scan(value)
        IN  /\ ( /\ ~sc.err
                 /\ separatorError(sc, flags) = <<>>
                 /\ ~sc.wrongLeadingZero
                 /\ sc.negative ) =>
                    /\ CoercibleShape(value, flags)
                    /\ ~numberFromString(value, flags).nan
            /\ ( /\ ~sc.err
                 /\ separatorErrorLib(sc, flags) = <<>>
                 /\ ~sc.wrongLeadingZero
                 /\ sc.negative ) =>
                    /\ CoercibleShape(value, flags)
                    /\ ~numberFromString(value, flags).nan
            /\ (ReachedRules /\ rules # <<>>) =>
                    /\ CoercibleShape(result.value.str, flags)
                    /\ ~numberFromString(result.value.str, flags).nan
            /\ (ReachedRulesLib /\ rules # <<>>) =>
                    /\ CoercibleShape(resultLib.value.str, flags)
                    /\ ~numberFromString(resultLib.value.str, flags).nan

\* '-,1' under decimalSeparator(',') passes the negative-zero check and is
\* coerced again by max(1)
C21_Witness ==
    /\ Validated
    /\ flags._decimalSeparator = <<",">>
    /\ input = Str(<<"-", ",", "1">>)
    /\ rules = <<[name |-> "max", limit |-> Limit(1, 0)]>>
    /\ result.errors = <<>>
    /\ ~numberFromString(result.value.str, flags).nan

(* ------------------- builder calls with any argument --------------------- *)

\* what a caller can pass to decimalSeparator(value) and decimal(value, _): the
\* two glyphs and a value that is neither.  The methods at part_000 lines
\* 376-381 and 388-390 hand the value to $_setFlag as it is; they test nothing.
AnySeparatorArgs == SeparatorArgs \cup {";"}

\* schema.validate(v, { convert }) on a part_000 node
ValidatePart(v, convert) ==
    /\ ~Validated
    /\ input' = v
    /\ prefs' = [convert |-> convert]
    /\ result' = validateCall(v, prefs', flags, rules)
    /\ UNCHANGED <<flags, rules, resultLib, root>>

\* A part_000 node is configured with any separator argument and validated
NextArgs ==
    \/ ~Validated /\ \E sep \in AnySeparatorArgs : decimalSeparator(sep)
    \/ ~Validated /\ \E sep \in AnySeparatorArgs, digits \in DigitsArgs : decimal(sep, digits)
    \/ ~Validated /\ \E v \in RangeInputs, convert \in BOOLEAN : ValidatePart(v, convert)

SpecArgs == Init /\ [][NextArgs]_vars

\* C22 as claimed: the stored decimalSeparator is unset, '.' or ',' in every
\* reachable state, so no validate call runs with another value.
C22_SeparatorIsAGlyph ==
    flags._decimalSeparator \in {Undefined, <<".">>, <<",">>}

\* what the stored ';' does: no separator test of validate fires, '1.1' and
\* '1,1' are both accepted
C22_AnySeparatorAccepted ==
    /\ Validated
    /\ flags._decimalSeparator = <<";">>
    /\ input \in {Str(<<"1", ".", "1">>), Str(<<"1", ",", "1">>)}
    /\ result.errors = <<>>

(* --------------------------- more than one node -------------------------- *)

\* Koi.numberAsString(): the node of the type as the extension defines it,
\* held in root.  A builder call returns a node of its own and leaves the
\* node it was called on as it was, so the call starts from root's flags
\* with no rule chained.
numberAsString ==
    /\ ~Validated
    /\ flags' = root
    /\ rules' = <<>>
    /\ UNCHANGED <<input, prefs, result, resultLib, root>>

\* Nodes are obtained, configured and validated one after the other
NextNodes ==
    \/ numberAsString
    \/ ~Validated /\ \E sep \in SeparatorArgs : decimalSeparator(sep)
    \/ ~Validated /\ \E digits \in DigitsArgs : minDecimals(digits)
    \/ ~Validated /\ \E digits \in DigitsArgs : maxDecimals(digits)
    \/ ~Validated /\ \E sep \in SeparatorArgs, digits \in DigitsArgs : decimal(sep, digits)
    \/ ~Validated /\ \E v \in RangeInputs, convert \in BOOLEAN : Validate(v, convert)

SpecNodes == Init /\ [][NextNodes]_vars

\* C23: whatever was configured on other nodes, the node numberAsString()
\* returns keeps the default configuration, in which nothing is set, and a
\* node obtained by a numberAsString() call starts from it.
C23_FreshDefaultPerNode ==
    [][/\ root = NoFlags
       /\ root' = NoFlags
       /\ numberAsString => (flags' = NoFlags /\ rules' = <<>>)
      ]_vars

\* a node validated with nothing set: '1.1' is rejected for its separator
\* while other nodes were given a separator
C23_Witness ==
    /\ Validated
    /\ root = NoFlags
    /\ flags = root
    /\ input = Str(<<"1", ".", "1">>)
    /\ result.errors = <<"numberAsString.noDecimals">>
    /\ resultLib.errors = <<"numberAsString.decimalSeparator">>

(* ----------------------- repeated validate calls ------------------------- *)

\* longest input string of the specification with repeated validate calls
MaxRepeatLen == 2

RepeatChars == {"-", "0", ".", " "}

RepeatInputs == {Str(s) : s \in StringsUpTo(RepeatChars, MaxRepeatLen)} \cup NonStrings

\* mutant: the call stores the separator it found in the node
ValidateAgainLearning(v, convert) ==
    /\ Validated
    /\ input' = v
    /\ prefs' = [convert |-> convert]
    /\ result' = validateCall(v, prefs', flags, rules)
    /\ resultLib' = validateCallLib(v, prefs', flags, rules)
    /\ flags' = IF IsString(v) /\ scan(converted(v.str, prefs')).sep # Undefined
                THEN [flags EXCEPT !._decimalSeparator = scan(converted(v.str, prefs')).sep]
                ELSE flags
    /\ UNCHANGED <<rules, root>>

\* a further schema.validate(v, { convert }) on a node that was validated
\* before.  validate and pre read the flags and write none; value is a local
\* of the call.
ValidateAgain(v, convert) ==
    /\ Validated
    /\ input' = v
    /\ prefs' = [convert |-> convert]
    /\ result' = validateCall(v, prefs', flags, rules)
    /\ resultLib' = validateCallLib(v, prefs', flags, rules)
    /\ UNCHANGED <<flags, rules, root>>

\* A node is configured, then validated any number of times
NextRepeat ==
    \/ ~Validated /\ \E sep \in SeparatorArgs : decimalSeparator(sep)
    \/ ~Validated /\ \E digits \in DigitsArgs : maxDecimals(digits)
    \/ ~Validated /\ \E v \in RepeatInputs, convert \in BOOLEAN : Validate(v, convert)
    \/ Validated /\ \E v \in RepeatInputs, convert \in BOOLEAN : ValidateAgain(v, convert)

SpecRepeat == Init /\ [][NextRepeat]_vars

\* C24: a validate call, the first on a node or a later one, leaves the
\* configuration and the rule chain of the node as they were, and its
\* outcome is the outcome of that call alone on a node of this configuration,
\* whatever calls were made on the node before.
C24_ValidateReadsOnly ==
    [][Validated' =>
          /\ flags' = flags
          /\ rules' = rules
          /\ result' = validateCall(input', prefs', flags, rules)
          /\ resultLib' = validateCallLib(input', prefs', flags, rules)
      ]_vars

\* the call on '.0' under decimalSeparator('.') and maxDecimals(0), made
\* first or after other calls on the node, ends as it does alone
C24_Witness ==
    /\ Validated
    /\ flags = [_decimalSeparator |-> <<".">>, _minDecimals |-> Undefined, _maxDecimals |-> <<0>>]
    /\ input = Str(<<".", "0">>)
    /\ result.errors = <<"numberAsString.maxDecimals">>
    /\ resultLib.errors = <<"numberAsString.maxDecimals">>

\* C25: a string that ends with a separator is rejected as notANumber by both
\* variants under every configuration, unset, the same and the other
\* separator included.
C25_BareSeparatorIsNotANumber ==
    ( /\ StringValidated
      /\ Seen # <<>>
      /\ Seen[Len(Seen)] \in Separators ) =>
        /\ result.errors = <<"numberAsString.notANumber">>
        /\ resultLib.errors = <<"numberAsString.notANumber">>

\* '1,' with '.' configured: the scan is clean, the separator is the wrong one
\* and no digit follows it
C25_Witness ==
    /\ Validated
    /\ flags._decimalSeparator = <<".">>
    /\ input = Str(<<"1", ",">>)
    /\ ~scan(input.str).err
    /\ scan(input.str).decimals = 0
    /\ result.errors = <<"numberAsString.notANumber">>
    /\ resultLib.errors = <<"numberAsString.notANumber">>

(* -------------------------------- elfproef ------------------------------- *)

ElfDigits == {"0", "1", "2", "3", "4", "5", "6", "7", "8", "9"}

\* parseInt(c, 10) of one character: its value, NaN when c is not a digit
parseInt(c) ==
    CASE c = "0" -> Num(0) [] c = "1" -> Num(1) [] c = "2" -> Num(2) [] c = "3" -> Num(3)
      [] c = "4" -> Num(4) [] c = "5" -> Num(5) [] c = "6" -> Num(6) [] c = "7" -> Num(7)
      [] c = "8" -> Num(8) [] c = "9" -> Num(9) [] OTHER -> NaN

\* a % b of JavaScript on integers: the sign of the result is the sign of a
JsRem(a, b) == IF a >= 0 THEN a % b ELSE 0 - ((0 - a) % b)

\* mutant: the last digit is weighted like the others, with 1
RECURSIVE elfSumLastPlus(_, _, _)
elfSumLastPlus(bsn, i, sum) ==
    IF i < Len(bsn)
    THEN LET d == parseInt(CharAt(bsn, i))
             w == Len(bsn) - i
         IN  elfSumLastPlus(bsn, i + 1,
                            IF sum.nan \/ d.nan THEN NaN ELSE Num(sum.n + d.n * w))
    ELSE sum

\* part_000 lines 482-485, lib.ts lines 372-375: the loop of elfproef from
\* index i with the sum so far; NaN stays NaN
RECURSIVE elfSum(_, _, _)
elfSum(bsn, i, sum) ==
    IF i < Len(bsn)
    THEN LET d == parseInt(CharAt(bsn, i))
             w == IF i = Len(bsn) - 1 THEN 0 - 1 ELSE Len(bsn) - i
         IN  elfSum(bsn, i + 1, IF sum.nan \/ d.nan THEN NaN ELSE Num(sum.n + d.n * w))
    ELSE sum

\* part_000 lines 477-488, lib.ts lines 367-378
elfproef(bsn) ==
    IF Len(bsn) < 8 \/ Len(bsn) > 9 THEN FALSE
    ELSE LET sum == elfSum(bsn, 0, Num(0))
         IN  ~sum.nan /\ JsRem(sum.n, 11) = 0

\* part_000 lines 203-208, lib.ts lines 167-172: validate of the elfproef rule
elfproefValidate(value) ==
    IF IsString(value) /\ elfproef(value.str)
    THEN [value |-> value, errors |-> <<>>]
    ELSE [value |-> value, errors |-> <<"string.elfproef">>]

\* most characters in which an input differs from the number it is made from
MaxEdits == 2

ElfChars == ElfDigits \cup {"a"}

\* the number of the tests and the README
GoodBSN == <<"1", "5", "0", "6", "6", "8", "2", "2", "3">>

\* the sets of at most MaxEdits places of the good number
EditPlaces == {P \in SUBSET (1..9) : Cardinality(P) <= MaxEdits}

\* the string s with the characters of f written at the places of f
Edited(s, f) == [i \in 1..Len(s) |-> IF i \in DOMAIN f THEN f[i] ELSE s[i]]

\* the lengths of the inputs: one too short, the two good ones, one too long
ElfLengths == 7..10

\* the first n characters of s, with a "0" behind them when s is shorter
Cut(s, n) == IF n <= Len(s) THEN SubSeq(s, 1, n) ELSE s \o <<"0">>

\* Koi.string().elfproef().validate(v) on a string v, in both variants
elfproefCall(v) ==
    /\ ~Validated
    /\ input' = v
    /\ result' = elfproefValidate(v)
    /\ resultLib' = elfproefValidate(v)
    /\ UNCHANGED <<flags, rules, prefs, root>>

\* the inputs are strings of 7 to 10 characters near the good number
NextElfproef ==
    /\ ~Validated
    /\ \E P \in EditPlaces, n \in ElfLengths :
           \E f \in [P -> ElfChars] : elfproefCall(Str(Cut(Edited(GoodBSN, f), n)))

SpecElfproef == Init /\ [][NextElfproef]_vars

IsElfDigits(s) == \A k \in 1..Len(s) : s[k] \in ElfDigits

\* the k-th digit of s with its weight: Len(s) - (k - 1), and -1 for the last
RECURSIVE WeightedSum(_, _)
WeightedSum(s, k) ==
    IF k = 0 THEN 0
    ELSE WeightedSum(s, k - 1)
           + parseInt(s[k]).n * (IF k = Len(s) THEN 0 - 1 ELSE Len(s) - (k - 1))

\* C26: elfproef accepts a string iff it has 8 or 9 characters, all digits,
\* and its weighted digit sum is divisible by 11; every other string is
\* rejected with string.elfproef.  '150668223' passes, '150668225' does not.
C26_ElfproefIsElevenTest ==
    Validated =>
        LET s == input.str
        IN  /\ result.errors = <<>> <=>
                  /\ Len(s) \in {8, 9}
                  /\ IsElfDigits(s)
                  /\ \E q \in -9..36 : WeightedSum(s, Len(s)) = 11 * q
            /\ result.errors # <<>> => result.errors = <<"string.elfproef">>
            /\ resultLib = result
            /\ s = GoodBSN => result.errors = <<>>
            /\ s = [GoodBSN EXCEPT ![9] = "5"] => result.errors = <<"string.elfproef">>

\* the good number is accepted
C26_Witness ==
    /\ Validated
    /\ input = Str(GoodBSN)
    /\ elfproef(input.str)
    /\ result.errors = <<>>

(* ------------------------ what the scanner refuses ----------------------- *)

\* a character that is no digit, separator or '-'; a '-' behind the first
\* place; or a second separator
Unscannable(s) ==
    \/ \E k \in 1..Len(s) : s[k] \notin Digits \cup Separators \cup {"-"}
    \/ \E k \in 2..Len(s) : s[k] = "-"
    \/ Cardinality({k \in 1..Len(s) : s[k] \in Separators}) >= 2

\* the strings up to three characters with a '+' in them
PlusStrings ==
    {s \in StringsUpTo({"+", "-", "1", "."}, 3) : \E k \in 1..Len(s) : s[k] = "+"}

\* '00.1a', '--1', and '1.0.1', '1.0,1' for '1.2.3', '1.2,3'
ScannerExamples ==
    {<<"0", "0", ".", "1", "a">>, <<"-", "-", "1">>,
     <<"1", ".", "0", ".", "1">>, <<"1", ".", "0", ",", "1">>}

\* C27: a string that holds, where the scanner sees it, a '+', a '-' behind
\* the first place, a second separator, whitespace or any other character that
\* is no digit is NotANumber under every configuration, whatever other reason
\* holds as well; so are the examples of the claim.
C27_ScannerRefuses ==
    /\ StringValidated /\ Unscannable(Seen) =>
           /\ result.errors = <<"numberAsString.notANumber">>
           /\ resultLib.errors = <<"numberAsString.notANumber">>
    /\ ~Validated =>
           \A s \in PlusStrings \cup ScannerExamples, p \in [convert : BOOLEAN] :
               /\ Unscannable(s)
               /\ validate(Str(s), p, flags).errors = <<"numberAsString.notANumber">>
               /\ pre(Str(s), p, flags).errors = <<"numberAsString.notANumber">>

\* '00.a' without a separator flag: a leading zero and a separator not allowed
\* as well, and the reason is NotANumber
C27_Witness ==
    /\ StringValidated
    /\ Seen = <<"0", "0", ".", "a">>
    /\ Unscannable(Seen)
    /\ leadingZero(Seen, 0)
    /\ flags._decimalSeparator = Undefined
    /\ result.errors = <<"numberAsString.notANumber">>

(* --------------------------- validating the output ----------------------- *)

\* C28: whatever the configuration, the convert setting and the input, an
\* accepted input's output is accepted again by the same schema under the same
\* convert setting, and is returned as it is; both variants.
C28_OutputValidatesToItself ==
    /\ Accepted =>
           validateCall(result.value, prefs, flags, rules)
               = [value |-> result.value, errors |-> <<>>]
    /\ Validated /\ resultLib.errors = <<>> =>
           validateCallLib(resultLib.value, prefs, flags, rules)
               = [value |-> resultLib.value, errors |-> <<>>]

\* an input with whitespace and a decimal comma, accepted under convert: the
\* output is not the input, and validates to itself
C28_Witness ==
    /\ Accepted
    /\ prefs.convert
    /\ result.value # input
    /\ flags._decimalSeparator = <<",">>
    /\ HasSeparator(result.value.str)
    /\ validateCall(result.value, prefs, flags, rules).value = result.value

(* ------------------------------ sign symmetry ---------------------------- *)

HasNonZeroDigit(s) == \E k \in 1..Len(s) : s[k] \in Digits \ {"0"}

\* what the scan and the checks behind it make of '-' followed by the string
\* they were given
SignedOutcome == validate(Str(<<"-">> \o Seen), [convert |-> FALSE], flags).errors

SignedOutcomeLib == pre(Str(<<"-">> \o Seen), [convert |-> FALSE], flags).errors

\* C29 as stated: an unsigned string with a digit other than zero has the
\* outcome of '-' followed by it, and where the two outcomes differ the
\* unsigned string is accepted and the signed one is NegativeZero.
C29_ZeroAcceptedUnsigned ==
    StringValidated /\ ~Signed(Seen) =>
        /\ HasNonZeroDigit(Seen) => result.errors = SignedOutcome
        /\ result.errors # SignedOutcome =>
               /\ ~HasNonZeroDigit(Seen)
               /\ result.errors = <<>>
               /\ SignedOutcome = <<"numberAsString.negativeZero">>

\* C29: an unsigned string with a digit other than zero has the outcome of '-'
\* followed by it, accepted or rejected for the same reason; where the two
\* outcomes differ the string is a zero, the signed one is NegativeZero, and
\* the unsigned one is accepted or fails a decimal count, the checks that come
\* behind NegativeZero; both variants.
C29_SignSymmetry ==
    StringValidated /\ ~Signed(Seen) =>
        /\ HasNonZeroDigit(Seen) =>
               /\ result.errors = SignedOutcome
               /\ resultLib.errors = SignedOutcomeLib
        /\ result.errors # SignedOutcome =>
               /\ WellFormed(Seen) /\ IsZero(Seen)
               /\ SignedOutcome = <<"numberAsString.negativeZero">>
               /\ result.errors \in {<<>>, <<"numberAsString.maxDecimals">>,
                                     <<"numberAsString.minDecimals">>}
        /\ resultLib.errors # SignedOutcomeLib =>
               /\ WellFormed(Seen) /\ IsZero(Seen)
               /\ SignedOutcomeLib = <<"numberAsString.negativeZero">>
               /\ resultLib.errors \in {<<>>, <<"numberAsString.maxDecimals">>,
                                        <<"numberAsString.minDecimals">>}

\* '0.0' with no decimals allowed behind the point: MaxDecimalsExceeded, and
\* NegativeZero with a '-' in front
C29_Witness ==
    /\ StringValidated
    /\ Seen = <<"0", ".", "0">>
    /\ flags._decimalSeparator = <<".">>
    /\ flags._maxDecimals = <<0>>
    /\ result.errors = <<"numberAsString.maxDecimals">>
    /\ SignedOutcome = <<"numberAsString.negativeZero">>

(* ------------------------ relaxing the decimal counts -------------------- *)

\* the configurations with the separator setting of f
SameSeparator(f) == {g \in AllFlags : g._decimalSeparator = f._decimalSeparator}

\* g asks for no more decimals than f and allows no fewer; an unset count
\* asks for nothing
Relaxes(g, f) ==
    /\ g._minDecimals = Undefined
         \/ (f._minDecimals # Undefined /\ g._minDecimals[1] <= f._minDecimals[1])
    /\ g._maxDecimals = Undefined
         \/ (f._maxDecimals # Undefined /\ g._maxDecimals[1] >= f._maxDecimals[1])

\* the reasons of the checks in front of the decimal counts
EarlyErrors ==
    {<<"numberAsString.notANumber">>, <<"numberAsString.noDecimals">>,
     <<"numberAsString.decimalComma">>, <<"numberAsString.decimalPoint">>,
     <<"numberAsString.decimalSeparator">>, <<"numberAsString.leadingZero">>,
     <<"numberAsString.negativeZero">>}

\* C30: with the separator setting and the input fixed, an input accepted
\* under minDecimals m and maxDecimals n is accepted under every m' <= m and
\* n' >= n, and an input rejected as NotANumber, for its separator, as
\* LeadingZero or as NegativeZero is rejected so under every minDecimals and
\* maxDecimals; both variants.
C30_RelaxingKeepsAcceptance ==
    StringValidated =>
        \A g \in SameSeparator(flags) :
            /\ result.errors = <<>> /\ Relaxes(g, flags) =>
                   validate(input, prefs, g).errors = <<>>
            /\ resultLib.errors = <<>> /\ Relaxes(g, flags) =>
                   pre(input, prefs, g).errors = <<>>
            /\ result.errors \in EarlyErrors =>
                   validate(input, prefs, g).errors = result.errors
            /\ resultLib.errors \in EarlyErrors =>
                   pre(input, prefs, g).errors = resultLib.errors

\* '.1' accepted with exactly one decimal asked for, where a relaxed
\* configuration exists and a stricter one rejects
C30_Witness ==
    /\ StringValidated
    /\ Seen = <<".", "1">>
    /\ flags = [_decimalSeparator |-> <<".">>, _minDecimals |-> <<1>>, _maxDecimals |-> <<1>>]
    /\ result.errors = <<>>
    /\ \E g \in SameSeparator(flags) : g # flags /\ Relaxes(g, flags)
    /\ \E g \in SameSeparator(flags) : validate(input, prefs, g).errors # <<>>

====
